---- MODULE Spec2Model ----
(***************************************************************************)
(* Model of wea.py: the users preference table, the units command, the     *)
(* weather command and the get_weather_data resolution pipeline            *)
(* (postal provider, general geocoder, weather endpoint).                  *)
(*                                                                         *)
(* Python values are modelled by strings: None is "None", a str is its     *)
(* text.  Coroutines suspend only at an await; everything between two      *)
(* awaits is one atomic action.                                            *)
(***************************************************************************)
EXTENDS Naturals, Sequences, FiniteSets

VARIABLES
    db,     \* the users table: user_id -> [location, units] for the rows that exist
    h,      \* the weather handlers in flight: handler -> its locals and position
    cq,     \* classifier harness: the query under classification (a string of characters)
    cres    \* classifier harness: which provider line 47 sends the query to

vars == <<db, h, cq, cres>>

(***************************************************************************)
(* Bounds and input domains                                                *)
(***************************************************************************)
\* longest query string the classifier harness enumerates
MaxLen == 6

Users == {"u1", "u2"}

\* the invocations of the weather command followed through their awaits.  The
\* table is read and written only between the member conversion and the first
\* HTTP request, in one step; units commands of any user run between any two
\* steps of an invocation.  The actions range over DOMAIN h.
Handlers == {"h1"}

None == "None"

\* the location texts users type in the resolution model
Queries == {"80129", "Paris"}

\* the characters of a query text
Chars(q) ==
    CASE q = "80129" -> <<"8", "0", "1", "2", "9">>
      [] q = "Paris" -> <<"P", "a", "r", "i", "s">>

\* characters of the classifier harness: an ASCII digit, a space, a tab,
\* a letter, and ARABIC-INDIC DIGIT THREE (str.isdigit() is true of it)
Alphabet == {"1", " ", "TAB", "a", "U+0663"}

AsciiDigits == {"0", "1", "2", "3", "4", "5", "6", "7", "8", "9"}
UnicodeDigits == AsciiDigits \cup {"U+0663"}
Whitespace == {" ", "TAB"}

(***************************************************************************)
(* str methods used at line 47                                             *)
(***************************************************************************)
RECURSIVE ReplaceSpaces(_)
\* s.replace(" ", "")
ReplaceSpaces(s) ==
    IF s = <<>> THEN <<>>
    ELSE IF Head(s) = " " THEN ReplaceSpaces(Tail(s))
    ELSE <<Head(s)>> \o ReplaceSpaces(Tail(s))

RECURSIVE LStrip(_)
LStrip(s) ==
    IF s # <<>> /\ Head(s) \in Whitespace THEN LStrip(Tail(s)) ELSE s

RECURSIVE RStrip(_)
RStrip(s) ==
    IF s # <<>> /\ s[Len(s)] \in Whitespace THEN RStrip(SubSeq(s, 1, Len(s) - 1)) ELSE s

\* s.strip()
Strip(s) == RStrip(LStrip(s))

\* s.isdigit(): non-empty and every character a (Unicode) digit
IsDigit(s) == s # <<>> /\ \A i \in 1..Len(s) : s[i] \in UnicodeDigits

\* the condition of PATH A
IsZipQuery(s) == IsDigit(ReplaceSpaces(s)) /\ Len(Strip(s)) = 5

(***************************************************************************)
(* Provider responses                                                      *)
(***************************************************************************)
\* what the postal provider (zippopotam) can answer
ZipResponses ==
    {"net_error", "status_404", "bad_json", "no_places", "no_place_name",
     "no_latitude", "no_longitude", "empty_latitude", "ok"}

ZipName == "Highlands Ranch"
ZipLat == "39.53"
ZipLon == "-104.97"

\* what the general geocoder (geo/1.0/direct) can answer
GeoFailures == {"net_error", "status_500", "bad_json", "empty_list", "no_lat"}
GeoNames == {"Douglas County", "Denver"}
GeoCountries == {"absent", "FR"}
GeoResponses ==
    [kind : GeoFailures, name : {""}, country : {""}]
        \cup [kind : {"ok"}, name : GeoNames, country : GeoCountries]
GeoLat == "39.35"
GeoLon == "-104.93"

\* what the weather endpoint can answer
WeatherResponses == {"net_error", "status_401", "ok"}
\* the weather endpoint's own name and country for the coordinates
WxName == "Littleton"
WxCountry == "CA"

(***************************************************************************)
(* The users table                                                         *)
(***************************************************************************)
Truthy(v) == v \notin {None, ""}

\* SELECT units ...; res[0] if res and res[0] else 'imperial'
UnitsOf(d, u) ==
    IF u \in DOMAIN d /\ Truthy(d[u].units) THEN d[u].units ELSE "imperial"

\* INSERT INTO users (user_id, units) ... ON CONFLICT DO UPDATE SET units
UpsertUnits(d, u, new_unit) ==
    IF u \in DOMAIN d
    THEN [d EXCEPT ![u].units = new_unit]
    ELSE [v \in DOMAIN d \cup {u} |->
            IF v = u THEN [location |-> None, units |-> new_unit] ELSE d[v]]

\* INSERT OR REPLACE INTO users (user_id, location) VALUES (?, ?): units back to the default
UpsertLocationReplace(d, u, location) ==
    [v \in DOMAIN d \cup {u} |->
        IF v = u THEN [location |-> location, units |-> "imperial"] ELSE d[v]]

\* INSERT OR IGNORE: the row of a user who has one is left as it is
UpsertLocationIgnore(d, u, location) ==
    IF u \in DOMAIN d
    THEN d
    ELSE [v \in DOMAIN d \cup {u} |->
            IF v = u THEN [location |-> location, units |-> UnitsOf(d, u)] ELSE d[v]]

\* INSERT INTO users (user_id, location, units) ... ON CONFLICT DO UPDATE SET location
UpsertLocation(d, u, location) ==
    IF u \in DOMAIN d
    THEN [d EXCEPT ![u].location = location]
    ELSE [v \in DOMAIN d \cup {u} |->
            IF v = u THEN [location |-> location, units |-> UnitsOf(d, u)] ELSE d[v]]

(***************************************************************************)
(* The units command                                                       *)
(***************************************************************************)
Preferences == {"C", "metric", "celsius", "ca", "F", "imperial", "fahrenheit", "us", "kelvin"}

\* preference.lower()
Lower(p) == CASE p = "C" -> "c" [] p = "F" -> "f" [] OTHER -> p

MetricWords == {"c", "metric", "celsius", "ca"}
ImperialWords == {"f", "imperial", "fahrenheit", "us"}

\* the lowered argument stored as it came, recognised or not
UnitsStoresRaw(a, preference) ==
    /\ db' = UpsertUnits(db, a, Lower(preference))
    /\ UNCHANGED <<h, cq, cres>>

\* the units command (lines 93-112)
Units(a, preference) ==
    /\ IF Lower(preference) \in MetricWords
       THEN db' = UpsertUnits(db, a, "metric")
       ELSE IF Lower(preference) \in ImperialWords
       THEN db' = UpsertUnits(db, a, "imperial")
       ELSE db' = db
    /\ UNCHANGED <<h, cq, cres>>

(***************************************************************************)
(* The weather command and get_weather_data                                *)
(***************************************************************************)
Mentions == {"<@u1>", "<@u2>"}

\* commands.MemberConverter().convert: a mention converts, other text is BadArgument
IsMember(arg) == arg \in Mentions
MemberId(arg) == CASE arg = "<@u1>" -> "u1" [] arg = "<@u2>" -> "u2"

NoGeo == [kind |-> "none", name |-> "", country |-> ""]
NoPlace == [name |-> "", country |-> ""]
NoEmbed == [city |-> "", country |-> "", temp_label |-> "", speed_label |-> ""]

\* PATH A has left nothing (lines 42-43)
NoZip == [official_name |-> None, lat |-> None, lon |-> None]

\* a handler that is not running; geo_q is the q parameter of geo_url, zipped
\* the locals PATH A left behind
Idle ==
    [pc |-> "idle", author |-> None, location |-> None, target_user_id |-> None,
     search_query |-> None, units_to_use |-> None,
     lat |-> None, lon |-> None, official_name |-> None, country |-> None,
     calls |-> <<>>, zip |-> "none", geo |-> NoGeo, wx |-> "none", token |-> None,
     ret |-> "none", data |-> NoPlace, embed |-> NoEmbed, msg |-> "none",
     geo_q |-> <<>>, zipped |-> NoZip]

\* the locals after the try block of PATH A (lines 48-59), by the provider's answer
ZipLocals(resp) ==
    CASE resp \in {"net_error", "status_404", "bad_json", "no_places", "no_place_name"} ->
            [official_name |-> None, lat |-> None, lon |-> None]
      [] resp = "no_latitude" ->
            [official_name |-> ZipName, lat |-> None, lon |-> None]
      [] resp = "no_longitude" ->
            [official_name |-> ZipName, lat |-> ZipLat, lon |-> None]
      [] resp = "empty_latitude" ->
            [official_name |-> ZipName, lat |-> "", lon |-> ZipLon]
      [] resp = "ok" ->
            [official_name |-> ZipName, lat |-> ZipLat, lon |-> ZipLon]

\* PATH B entered whatever PATH A found
NeedsGeocodeUnguarded(lat, lon) == TRUE

\* if not lat or not lon
NeedsGeocode(lat, lon) == ~Truthy(lat) \/ ~Truthy(lon)

\* the weather request is built and issued (lines 77, 79)
IssueWeather(r) ==
    [r EXCEPT !.pc = "weather", !.calls = Append(@, "weather"), !.token = r.units_to_use]

\* the general geocoder is asked (lines 63, 64): q={query}
IssueGeo(r) ==
    [r EXCEPT !.pc = "geo", !.calls = Append(@, "geo_direct"),
              !.geo_q = Chars(r.search_query)]

\* an exception leaves get_weather_data and the command
Raise(r) == [r EXCEPT !.pc = "done", !.ret = "raised"]

\* get_weather_data returned None: the else branch of the command (line 222)
ReturnNone(r) == [r EXCEPT !.pc = "done", !.ret = "None", !.msg = "could_not_find"]

\* get_weather_data up to its first await (lines 40-50, 62-64)
Enter(r) ==
    IF r.search_query = None
    THEN Raise(r)
    ELSE LET r0 == [r EXCEPT !.country = "US"] IN
         IF IsZipQuery(Chars(r.search_query))
         THEN [r0 EXCEPT !.pc = "zip", !.calls = Append(@, "zippopotam")]
         ELSE IF NeedsGeocode(r0.lat, r0.lon) THEN IssueGeo(r0) ELSE IssueWeather(r0)

\* the units of the author, whoever the target is
FetchAuthorUnits(r, d) == Enter([r EXCEPT !.units_to_use = UnitsOf(d, r.author)])

\* lines 169-176: the target's units, then the fetch
Fetch(r, d) == Enter([r EXCEPT !.units_to_use = UnitsOf(d, r.target_user_id)])

\* .wx with no argument (lines 117-118, 159-176)
WeatherNoArg(hd, a) ==
    /\ h[hd].pc \in {"idle", "done"}
    /\ LET r == [Idle EXCEPT !.author = a, !.target_user_id = a] IN
       h' = [h EXCEPT ![hd] =
                IF a \in DOMAIN db
                THEN Fetch([r EXCEPT !.search_query = db[a].location], db)
                ELSE [r EXCEPT !.pc = "done", !.msg = "no_location"]]
    /\ UNCHANGED <<db, cq, cres>>

\* .wx <location>: up to the await of the member conversion (lines 117-126)
WeatherArg(hd, a, location) ==
    /\ h[hd].pc \in {"idle", "done"}
    /\ h' = [h EXCEPT ![hd] =
                [Idle EXCEPT !.pc = "convert", !.author = a, !.target_user_id = a,
                             !.location = location]]
    /\ UNCHANGED <<db, cq, cres>>

\* the member's location written to the author's row on the way
ConvertMemberSaves(hd) ==
    /\ h[hd].pc = "convert"
    /\ IsMember(h[hd].location)
    /\ LET r == [h[hd] EXCEPT !.target_user_id = MemberId(h[hd].location)] IN
       IF r.target_user_id \in DOMAIN db
       THEN /\ db' = UpsertLocation(db, r.author, db[r.target_user_id].location)
            /\ h' = [h EXCEPT ![hd] =
                        Fetch([r EXCEPT !.search_query = db[r.target_user_id].location], db)]
       ELSE /\ db' = db
            /\ h' = [h EXCEPT ![hd] = [r EXCEPT !.pc = "done", !.msg = "target_no_location"]]
    /\ UNCHANGED <<cq, cres>>

\* the conversion returns a member (lines 129-139, 169-176)
ConvertMember(hd) ==
    /\ h[hd].pc = "convert"
    /\ IsMember(h[hd].location)
    /\ LET r == [h[hd] EXCEPT !.target_user_id = MemberId(h[hd].location)] IN
       h' = [h EXCEPT ![hd] =
                IF r.target_user_id \in DOMAIN db
                THEN Fetch([r EXCEPT !.search_query = db[r.target_user_id].location], db)
                ELSE [r EXCEPT !.pc = "done", !.msg = "target_no_location"]]
    /\ UNCHANGED <<db, cq, cres>>

\* the conversion raises BadArgument: the location is saved (lines 141-157, 169-176)
ConvertBadArgument(hd) ==
    /\ h[hd].pc = "convert"
    /\ ~IsMember(h[hd].location)
    /\ db' = UpsertLocation(db, h[hd].author, h[hd].location)
    /\ h' = [h EXCEPT ![hd] = Fetch([h[hd] EXCEPT !.search_query = h[hd].location], db')]
    /\ UNCHANGED <<cq, cres>>

\* the handler once PATH A is over with locals loc: PATH B or the weather call
AfterZip(r, loc, resp) ==
    LET r1 == [r EXCEPT !.official_name = loc.official_name,
                        !.lat = loc.lat, !.lon = loc.lon,
                        !.zip = IF resp = "ok" THEN "ok" ELSE "failed",
                        !.zipped = loc]
    IN IF NeedsGeocode(r1.lat, r1.lon) THEN IssueGeo(r1) ELSE IssueWeather(r1)

\* PATH A without its try/except: what the lookup raises leaves the function
ZipStepUncaught(r, resp) ==
    IF resp \in {"net_error", "bad_json", "no_places", "no_place_name",
                 "no_latitude", "no_longitude"}
    THEN Raise([r EXCEPT !.zip = "failed"])
    ELSE AfterZip(r, ZipLocals(resp), resp)

\* PATH A on the provider's answer, then on to the next await (lines 50-64, 77-79)
ZipStep(r, resp) == AfterZip(r, ZipLocals(resp), resp)

\* the postal provider answers
ZipResponse(hd, resp) ==
    /\ h[hd].pc = "zip"
    /\ h' = [h EXCEPT ![hd] = ZipStep(h[hd], resp)]
    /\ UNCHANGED <<db, cq, cres>>

\* location_info.get('country', 'US')
GeoCountry(c) == IF c = "absent" THEN "US" ELSE c

\* every candidate canonicalised by a reverse lookup, free text included
TakeFirstReverse(r, resp) ==
    IssueWeather([r EXCEPT !.lat = GeoLat, !.lon = GeoLon,
                           !.official_name = "Castle Rock",
                           !.country = GeoCountry(resp.country),
                           !.calls = Append(@, "geo_reverse")])

\* official_name = official_name or location_info['name']
TakeFirstKeepName(r, resp) ==
    IssueWeather([r EXCEPT !.lat = GeoLat, !.lon = GeoLon,
                           !.official_name =
                                IF Truthy(r.official_name) THEN r.official_name
                                ELSE resp.name,
                           !.country = GeoCountry(resp.country)])

\* lines 69-79: the first match becomes the candidate, the weather call follows
TakeFirst(r, resp) ==
    IssueWeather([r EXCEPT !.lat = GeoLat, !.lon = GeoLon,
                           !.official_name = resp.name,
                           !.country = GeoCountry(resp.country)])

\* PATH B without "if not geo_data: return None": geo_data[0] raises IndexError
GeoStepNoEmptyCheck(r0, resp) ==
    LET r == [r0 EXCEPT !.geo = resp] IN
    CASE resp.kind \in {"net_error", "bad_json", "no_lat", "empty_list"} -> Raise(r)
      [] resp.kind = "status_500" -> ReturnNone(r)
      [] resp.kind = "ok" -> TakeFirst(r, resp)

\* PATH B without the return of line 65: a non-200 goes on to STEP 3
GeoStepFallThrough(r0, resp) ==
    LET r == [r0 EXCEPT !.geo = resp] IN
    CASE resp.kind \in {"net_error", "bad_json", "no_lat"} -> Raise(r)
      [] resp.kind = "empty_list" -> ReturnNone(r)
      [] resp.kind = "status_500" -> IssueWeather(r)
      [] resp.kind = "ok" -> TakeFirst(r, resp)

\* PATH B on the provider's answer (lines 64-79)
GeoStep(r0, resp) ==
    LET r == [r0 EXCEPT !.geo = resp] IN
    CASE resp.kind \in {"net_error", "bad_json", "no_lat"} -> Raise(r)
      [] resp.kind \in {"status_500", "empty_list"} -> ReturnNone(r)
      [] resp.kind = "ok" -> TakeFirst(r, resp)

\* the general geocoder answers
GeoResponse(hd, resp) ==
    /\ h[hd].pc = "geo"
    /\ h' = [h EXCEPT ![hd] = GeoStep(h[hd], resp)]
    /\ UNCHANGED <<db, cq, cres>>

\* the upstream's own place fields left as they came
SetPlaceKeepUpstream(weather_data, official_name, country) == weather_data

\* lines 82-83: the upstream's own place fields are overwritten
SetPlace(weather_data, official_name, country) ==
    [weather_data EXCEPT !.name = official_name, !.country = country]

\* the comparison of line 188 against the other token
TempLabelSwapped(units) == IF units = "metric" THEN "degF" ELSE "degC"

\* lines 188-193
TempLabel(units) == IF units = "imperial" THEN "degF" ELSE "degC"
SpeedLabel(units) == IF units = "imperial" THEN "mph" ELSE "m/s"

\* the labels chosen from the units stored when the response arrives
WeatherResponseRereads(hd, resp) ==
    /\ h[hd].pc = "weather"
    /\ LET r == [h[hd] EXCEPT !.wx = resp]
           now == UnitsOf(db, r.target_user_id)
       IN h' = [h EXCEPT ![hd] =
                CASE resp = "net_error" -> Raise(r)
                  [] resp = "status_401" -> ReturnNone(r)
                  [] resp = "ok" ->
                        [r EXCEPT !.pc = "done", !.ret = "data",
                                  !.data = [name |-> r.official_name, country |-> r.country],
                                  !.embed = [city |-> r.official_name,
                                             country |-> r.country,
                                             temp_label |-> TempLabel(now),
                                             speed_label |-> SpeedLabel(now)],
                                  !.msg = "embed"]]
    /\ UNCHANGED <<db, cq, cres>>

\* the weather endpoint answers (lines 79-85, 178-222); fetch_user and ctx.send,
\* awaited after the embed is built, change nothing of the embed
WeatherResponse(hd, resp) ==
    /\ h[hd].pc = "weather"
    /\ LET r == [h[hd] EXCEPT !.wx = resp] IN
       h' = [h EXCEPT ![hd] =
                CASE resp = "net_error" -> Raise(r)
                  [] resp = "status_401" -> ReturnNone(r)
                  [] resp = "ok" ->
                        LET data == SetPlace([name |-> WxName, country |-> WxCountry],
                                             r.official_name, r.country)
                        IN [r EXCEPT !.pc = "done", !.ret = "data", !.data = data,
                                     !.embed = [city |-> data.name,
                                                country |-> data.country,
                                                temp_label |-> TempLabel(r.units_to_use),
                                                speed_label |-> SpeedLabel(r.units_to_use)],
                                     !.msg = "embed"]]
    /\ UNCHANGED <<db, cq, cres>>

(***************************************************************************)
(* The program: commands of any user at any time                           *)
(***************************************************************************)
EmptyTable == [u \in {} |-> [location |-> None, units |-> None]]

Init ==
    /\ db = EmptyTable
    /\ h = [hd \in Handlers |-> Idle]
    /\ cq = <<>>
    /\ cres = "none"

Next ==
    \/ \E a \in Users, p \in Preferences : Units(a, p)
    \/ \E hd \in DOMAIN h, a \in Users : WeatherNoArg(hd, a)
    \/ \E hd \in DOMAIN h, a \in Users, l \in Mentions \cup Queries : WeatherArg(hd, a, l)
    \/ \E hd \in DOMAIN h : ConvertMember(hd)
    \/ \E hd \in DOMAIN h : ConvertBadArgument(hd)
    \/ \E hd \in DOMAIN h, resp \in ZipResponses : ZipResponse(hd, resp)
    \/ \E hd \in DOMAIN h, resp \in GeoResponses : GeoResponse(hd, resp)
    \/ \E hd \in DOMAIN h, resp \in WeatherResponses : WeatherResponse(hd, resp)

Spec == Init /\ [][Next]_vars

(***************************************************************************)
(* Two invocations of the weather command in flight at once, their steps   *)
(* and the units commands interleaved at the awaits.  The geocoders answer  *)
(* with a place; the weather endpoint answers or fails.                    *)
(***************************************************************************)
ConcHandlers == {"h1", "h2"}
ConcPreferences == {"metric", "F", "kelvin"}
ConcZipResponses == {"ok"}
ConcGeoResponses == {[kind |-> "ok", name |-> "Denver", country |-> "FR"]}
ConcWeatherResponses == {"status_401", "ok"}

InitConc ==
    /\ db = EmptyTable
    /\ h = [hd \in ConcHandlers |-> Idle]
    /\ cq = <<>>
    /\ cres = "none"

NextConc ==
    \/ \E a \in Users, p \in ConcPreferences : Units(a, p)
    \/ \E hd \in DOMAIN h, a \in Users : WeatherNoArg(hd, a)
    \/ \E hd \in DOMAIN h, a \in Users, l \in Mentions \cup Queries : WeatherArg(hd, a, l)
    \/ \E hd \in DOMAIN h : ConvertMember(hd)
    \/ \E hd \in DOMAIN h : ConvertBadArgument(hd)
    \/ \E hd \in DOMAIN h, resp \in ConcZipResponses : ZipResponse(hd, resp)
    \/ \E hd \in DOMAIN h, resp \in ConcGeoResponses : GeoResponse(hd, resp)
    \/ \E hd \in DOMAIN h, resp \in ConcWeatherResponses : WeatherResponse(hd, resp)

SpecConc == InitConc /\ [][NextConc]_vars

(***************************************************************************)
(* The classification of line 47 on its own, over every short string       *)
(***************************************************************************)
StringsUpTo(n) == UNION {[1..k -> Alphabet] : k \in 0..n}

\* the provider a query is sent to first (lines 47-50, 62-64)
FirstCall(s) == IF IsZipQuery(s) THEN "zippopotam" ELSE "geo_direct"

Classify ==
    /\ cres = "none"
    /\ cres' = FirstCall(cq)
    /\ UNCHANGED <<db, h, cq>>

InitClassify ==
    /\ db = EmptyTable
    /\ h = [hd \in Handlers |-> Idle]
    /\ cq \in StringsUpTo(MaxLen)
    /\ cres = "none"

NextClassify == Classify

SpecClassify == InitClassify /\ [][NextClassify]_vars

(***************************************************************************)
(* Properties                                                              *)
(***************************************************************************)
Done(hd) == h[hd].pc = "done"
Called(hd, p) == \E i \in 1..Len(h[hd].calls) : h[hd].calls[i] = p

\* the outcome the command gives for get_weather_data returning None
NotFound(hd) == h[hd].ret = "None" /\ h[hd].msg = "could_not_find"

\* C1: when the postal provider fails and the general provider fails too
\* (non-200, empty list, malformed payload, network failure), get_weather_data
\* returns the not-found value and raises nothing.
C1_BothFailGivesNotFound ==
    \A hd \in DOMAIN h :
        (h[hd].zip = "failed" /\ h[hd].geo.kind \in GeoFailures)
            => (Done(hd) /\ NotFound(hd) /\ h[hd].ret # "raised")

\* five ASCII digits once the spaces are removed
FiveAsciiDigits(s) ==
    LET t == ReplaceSpaces(s) IN Len(t) = 5 /\ \A i \in 1..Len(t) : t[i] \in AsciiDigits

\* C2: a query goes to the postal provider iff removing its spaces leaves
\* exactly five ASCII digits; every other query goes straight to the general
\* provider.
C2_PostalIffFiveAsciiDigits ==
    cres # "none" => (cres = "zippopotam" <=> FiveAsciiDigits(cq))

\* name.find("County") >= 0, on the names of the model
ContainsCounty(name) == name \in {"Douglas County"}

\* C3: a postal query whose postal provider failed and whose general candidate
\* is named "... County" gets a reverse lookup at the candidate's coordinates
\* (its results give the reported name, which is never empty).
C3_CountyNameCanonicalized ==
    \A hd \in DOMAIN h :
        (h[hd].zip = "failed" /\ h[hd].geo.kind = "ok" /\ ContainsCounty(h[hd].geo.name))
            => (Called(hd, "geo_reverse") /\ Truthy(h[hd].official_name))

\* C4: a weather command with no usable query (no argument and no stored
\* location, in any state of the table) ends in the no-location message and
\* never in an unhandled error.
C4_EmptyInputNoCrash ==
    \A hd \in DOMAIN h :
        (Done(hd) /\ h[hd].search_query = None)
            => (h[hd].msg \in {"no_location", "target_no_location"} /\ h[hd].ret # "raised")

\* C5: once the postal provider has answered 200 with a usable first place,
\* the general provider is not called in that request.
C5_ZipSuccessSkipsGeneral ==
    \A hd \in DOMAIN h : h[hd].zip = "ok" => ~Called(hd, "geo_direct")

C5_Witness ==
    \E hd \in DOMAIN h : Done(hd) /\ h[hd].zip = "ok" /\ h[hd].ret = "data"

\* C6: a weather fetch that fails with a non-200 status gives an outcome the
\* caller can tell from the not-found outcome of geocoding (another return
\* value, another message).
C6_WeatherFailureDistinct ==
    \A hd \in DOMAIN h :
        (Done(hd) /\ h[hd].wx = "status_401") => ~NotFound(hd)

\* C7: a failure of the postal provider is never fatal: the general provider
\* is called, and what follows is decided by its answer alone (no candidate:
\* the weather endpoint is not called; a candidate: name, coordinates and
\* country are all the general provider's).
C7_ZipFailureFallsThrough ==
    \A hd \in DOMAIN h :
        h[hd].zip = "failed" =>
            /\ Called(hd, "geo_direct")
            /\ h[hd].geo.kind = "none" => (h[hd].pc = "geo" /\ h[hd].ret = "none")
            /\ h[hd].geo.kind \in {"status_500", "empty_list"} => NotFound(hd)
            /\ h[hd].geo.kind \in GeoFailures => (Done(hd) /\ ~Called(hd, "weather"))
            /\ h[hd].geo.kind = "ok" =>
                  /\ Called(hd, "weather")
                  /\ h[hd].lat = GeoLat /\ h[hd].lon = GeoLon
                  /\ h[hd].official_name = h[hd].geo.name
                  /\ h[hd].country = GeoCountry(h[hd].geo.country)
                  /\ h[hd].ret = "data" =>
                        (h[hd].embed.city = h[hd].geo.name
                            /\ h[hd].embed.country = GeoCountry(h[hd].geo.country))

C7_Witness ==
    \E hd \in DOMAIN h :
        /\ Done(hd) /\ h[hd].zip = "failed" /\ h[hd].ret = "data"
        /\ h[hd].calls = <<"zippopotam", "geo_direct", "weather">>

\* C8: when the general provider answers non-200 or with an empty list, on
\* the free-text path or after a postal failure, the request ends not-found
\* and the weather endpoint is never called.
C8_NoCandidateNoWeather ==
    \A hd \in DOMAIN h :
        h[hd].geo.kind \in {"status_500", "empty_list"}
            => (Done(hd) /\ NotFound(hd) /\ ~Called(hd, "weather") /\ h[hd].wx = "none")

C8_Witness ==
    \E hd \in DOMAIN h :
        /\ Done(hd) /\ h[hd].geo.kind = "empty_list"
        /\ h[hd].calls = <<"zippopotam", "geo_direct">>

\* C9: the unit token sent to the weather endpoint and the labels shown agree
\* with the unit system of the request: imperial with degF and mph, metric
\* with degC and m/s.
C9_TokenAndLabelsAgree ==
    \A hd \in DOMAIN h :
        /\ Called(hd, "weather") =>
              (h[hd].token = h[hd].units_to_use /\ h[hd].token \in {"metric", "imperial"})
        /\ h[hd].msg = "embed" =>
              \/ /\ h[hd].units_to_use = "imperial" /\ h[hd].token = "imperial"
                 /\ h[hd].embed.temp_label = "degF" /\ h[hd].embed.speed_label = "mph"
              \/ /\ h[hd].units_to_use = "metric" /\ h[hd].token = "metric"
                 /\ h[hd].embed.temp_label = "degC" /\ h[hd].embed.speed_label = "m/s"

C9_Witness ==
    \E hd \in DOMAIN h :
        h[hd].msg = "embed" /\ h[hd].token = "metric" /\ h[hd].embed.temp_label = "degC"

\* C10: on success the report carries the name and country of the geocoding
\* stage (the postal place, or the general candidate), not the weather
\* endpoint's own.
C10_ReportNamesFromGeocoding ==
    \A hd \in DOMAIN h :
        h[hd].ret = "data" =>
            /\ h[hd].embed.city = h[hd].data.name
            /\ h[hd].embed.country = h[hd].data.country
            /\ h[hd].zip = "ok" =>
                  (h[hd].data.name = ZipName /\ h[hd].data.country = "US")
            /\ h[hd].geo.kind = "ok" =>
                  /\ h[hd].data.name = h[hd].geo.name
                  /\ h[hd].data.country = GeoCountry(h[hd].geo.country)
            /\ h[hd].zip = "ok" \/ h[hd].geo.kind = "ok"

C10_Witness ==
    \E hd \in DOMAIN h :
        /\ h[hd].ret = "data" /\ h[hd].geo.kind = "ok" /\ h[hd].geo.country = "FR"
        /\ h[hd].embed.city = "Denver" /\ h[hd].embed.country = "FR"

\* a postal code with its country named: "80129,US"
CountryQualified(s) == s \o <<",", "U", "S">>

\* C11: when a postal-code query falls through to the general provider, the
\* request carries the raw query with an explicit country suffix, not the bare
\* text.
C11_FallbackCountryQualified ==
    \A hd \in DOMAIN h :
        (h[hd].zip = "failed" /\ Called(hd, "geo_direct"))
            => h[hd].geo_q = CountryQualified(Chars(h[hd].search_query))

\* the orders in which one request can have called its providers so far
CallOrders ==
    {<<>>, <<"zippopotam">>, <<"zippopotam", "geo_direct">>,
     <<"zippopotam", "weather">>, <<"zippopotam", "geo_direct", "weather">>,
     <<"geo_direct">>, <<"geo_direct", "weather">>}

\* C12: within one request each of the postal provider, the general provider
\* and the weather endpoint is called at most once, in that order, one at a
\* time, and the weather endpoint only once a candidate with coordinates
\* exists.
C12_SinglePassInOrder ==
    \A hd \in DOMAIN h :
        /\ h[hd].calls \in CallOrders
        /\ h[hd].pc = "zip" => h[hd].calls = <<"zippopotam">>
        /\ h[hd].pc = "geo" => h[hd].calls[Len(h[hd].calls)] = "geo_direct"
        /\ h[hd].pc = "weather" => h[hd].calls[Len(h[hd].calls)] = "weather"
        /\ Called(hd, "weather") =>
              /\ Truthy(h[hd].lat) /\ Truthy(h[hd].lon)
              /\ h[hd].zip = "ok" \/ h[hd].geo.kind = "ok"

C12_Witness ==
    \E hd \in DOMAIN h :
        h[hd].pc = "weather" /\ h[hd].calls = <<"zippopotam", "geo_direct", "weather">>

\* the query is free text for line 47
FreeText(hd) ==
    h[hd].search_query \in Queries /\ ~IsZipQuery(Chars(h[hd].search_query))

\* C13: for a free-text query the postal provider and the reverse lookup are
\* never called, and the name reported is the name of the general provider's
\* first result.
C13_FreeTextNameKept ==
    \A hd \in DOMAIN h :
        FreeText(hd) =>
            /\ ~Called(hd, "zippopotam") /\ ~Called(hd, "geo_reverse")
            /\ h[hd].geo.kind = "ok" =>
                  /\ h[hd].official_name = h[hd].geo.name
                  /\ h[hd].ret = "data" => h[hd].embed.city = h[hd].geo.name

C13_Witness ==
    \E hd \in DOMAIN h :
        /\ h[hd].search_query = "Paris" /\ h[hd].ret = "data"
        /\ h[hd].embed.city = "Douglas County"
        /\ h[hd].calls = <<"geo_direct", "weather">>

\* the unit system stored for user u in table d, Imperial when there is none
StoredUnits(d, u) ==
    IF u \in DOMAIN d /\ d[u].units \in {"metric", "imperial"} THEN d[u].units
    ELSE "imperial"

\* the step in which handler hd reads the table and starts the fetch
ReadsUnits(hd) ==
    /\ h[hd].pc \in {"idle", "done", "convert"}
    /\ h'[hd] # h[hd]
    /\ h'[hd].units_to_use # None

\* C14: the unit system of a weather request is the stored preference of the
\* target user (the mentioned member when one is looked up, otherwise the
\* author), Imperial when that user has no row or no units value.
C14_UnitsOfTarget ==
    [][\A hd \in DOMAIN h :
          ReadsUnits(hd) =>
              /\ h'[hd].target_user_id =
                    IF IsMember(h'[hd].location) THEN MemberId(h'[hd].location)
                    ELSE h'[hd].author
              /\ h'[hd].units_to_use = StoredUnits(db, h'[hd].target_user_id)
              /\ h'[hd].units_to_use = StoredUnits(db', h'[hd].target_user_id)]_vars

C14_Witness ==
    \E hd \in DOMAIN h :
        /\ h[hd].pc = "weather" /\ h[hd].target_user_id # h[hd].author
        /\ h[hd].units_to_use = "metric" /\ h[hd].token = "metric"
        /\ StoredUnits(db, h[hd].author) = "imperial"

\* the step saves a location for user u (lines 151-155)
SavesLocation(u) ==
    \E hd \in DOMAIN h :
        /\ h[hd].pc = "convert" /\ ~IsMember(h[hd].location) /\ h[hd].author = u
        /\ h'[hd] # h[hd]

\* the row of user u is the same before and after the step
RowKept(u) ==
    /\ u \in DOMAIN db <=> u \in DOMAIN db'
    /\ u \in DOMAIN db => db'[u] = db[u]

\* C15: saving a location leaves the user's units as they were, setting units
\* leaves the user's location as it was, and neither touches another user's
\* row (no row is ever removed).
C15_WritesDoNotClobber ==
    [][\A u \in Users :
          /\ u \in DOMAIN db => u \in DOMAIN db'
          /\ SavesLocation(u) =>
                /\ u \in DOMAIN db => db'[u].units = db[u].units
                /\ \A v \in Users \ {u} : RowKept(v)
          /\ ~SavesLocation(u) =>
                /\ u \in DOMAIN db => db'[u].location = db[u].location
                /\ (u \notin DOMAIN db /\ u \in DOMAIN db') => db'[u].location = None
                /\ ~RowKept(u) => \A v \in Users \ {u} : RowKept(v)]_vars

C15_Witness ==
    \E u \in DOMAIN db, v \in DOMAIN db :
        /\ u # v
        /\ db[u].location = "Paris" /\ db[u].units = "metric"
        /\ db[v].location = "80129" /\ db[v].units = "imperial"

\* C16: a weather command whose argument is a member writes nothing: no step
\* of it changes any row of the table, whether or not the member has a stored
\* location.
C16_MemberLookupReadOnly ==
    [][\A hd \in DOMAIN h :
          (IsMember(h[hd].location) /\ h[hd].pc # "done" /\ h'[hd] # h[hd])
              => db' = db]_vars

C16_Witness ==
    \E hd \in DOMAIN h :
        /\ IsMember(h[hd].location) /\ h[hd].target_user_id # h[hd].author
        /\ h[hd].ret = "data"
        /\ h[hd].author \notin DOMAIN db

\* C17: in a request that reaches the weather call, name, latitude, longitude
\* and country all come from one provider response: the postal place, or,
\* when the postal provider left only part of a candidate, the general
\* provider's first result for all four.
C17_CandidateFromOneProvider ==
    \A hd \in DOMAIN h :
        Called(hd, "weather") =>
            \/ /\ h[hd].zip = "ok" /\ ~Called(hd, "geo_direct")
               /\ h[hd].official_name = ZipName
               /\ h[hd].lat = ZipLat /\ h[hd].lon = ZipLon
               /\ h[hd].country = "US"
            \/ /\ h[hd].zip # "ok" /\ h[hd].geo.kind = "ok"
               /\ h[hd].official_name = h[hd].geo.name
               /\ h[hd].lat = GeoLat /\ h[hd].lon = GeoLon
               /\ h[hd].country = GeoCountry(h[hd].geo.country)

C17_Witness ==
    \E hd \in DOMAIN h :
        /\ Called(hd, "weather")
        /\ h[hd].zipped.official_name = ZipName /\ h[hd].zipped.lat = ZipLat
        /\ h[hd].zipped.lon = None
        /\ h[hd].official_name = "Denver" /\ h[hd].lat = GeoLat

\* C18: with the handlers of several users interleaved at their awaits and
\* units commands running while a weather request is in flight, the token
\* sent upstream and the labels rendered for a request both come from the one
\* units value the request read before its fetch started.
C18_InFlightUnitsConsistent ==
    \A hd \in DOMAIN h :
        /\ Called(hd, "weather") => h[hd].token = h[hd].units_to_use
        /\ h[hd].msg = "embed" =>
              /\ h[hd].token \in {"metric", "imperial"}
              /\ h[hd].embed.temp_label = "degF" <=> h[hd].token = "imperial"
              /\ h[hd].embed.temp_label = "degC" <=> h[hd].token = "metric"
              /\ h[hd].embed.speed_label = "mph" <=> h[hd].token = "imperial"
              /\ h[hd].embed.speed_label = "m/s" <=> h[hd].token = "metric"

\* a request in flight whose target's stored units changed after it read them,
\* next to another user's request in flight
C18_Witness ==
    \E hd \in DOMAIN h, other \in DOMAIN h :
        /\ hd # other
        /\ h[hd].pc = "weather" /\ h[hd].token = "imperial"
        /\ h[hd].target_user_id \in DOMAIN db
        /\ db[h[hd].target_user_id].units = "metric"
        /\ h[other].pc \in {"zip", "geo", "weather"}
        /\ h[other].author # h[hd].author

\* handler hd saves its argument in this step (lines 141-157)
SaveStep(hd) ==
    h[hd].pc = "convert" /\ ~IsMember(h[hd].location) /\ h'[hd] # h[hd]

\* handler hd ends a command that had saved its argument
EndsSavedCommand(hd) ==
    /\ h[hd].pc \in {"convert", "zip", "geo", "weather"}
    /\ h'[hd].pc = "done"
    /\ h'[hd].location \in Queries

\* C19 as stated: a weather command whose argument is not a member stores the
\* argument before resolution starts, and when the command ends, found or not
\* found, the author's stored location equals the argument.
C19_StoredLocationIsArgument ==
    [][\A hd \in DOMAIN h :
          EndsSavedCommand(hd) =>
              /\ h'[hd].author \in DOMAIN db'
              /\ db'[h'[hd].author].location = h'[hd].location]_vars

\* C19 amended: the argument is stored before resolution starts and the
\* resolution runs on it; no later step of the command changes the table,
\* found or not found, so the author keeps a stored location (the argument,
\* unless another weather command of the same author saved its own meanwhile);
\* an argument-less weather command runs on the location stored at that time.
C19_SavedBeforeResolution ==
    [][\A hd \in DOMAIN h :
          /\ SaveStep(hd) =>
                /\ h[hd].author \in DOMAIN db'
                /\ db'[h[hd].author].location = h[hd].location
                /\ h'[hd].search_query = h[hd].location
                /\ h'[hd].pc \in {"zip", "geo"}
          /\ (h[hd].pc \in {"zip", "geo", "weather"} /\ h'[hd] # h[hd]) => db' = db
          /\ EndsSavedCommand(hd) =>
                /\ h'[hd].author \in DOMAIN db'
                /\ db'[h'[hd].author].location \in Queries
          /\ (h[hd].pc \in {"idle", "done"} /\ h'[hd] # h[hd] /\ h'[hd].pc # "convert"
                /\ h'[hd].author \in DOMAIN db) =>
                    h'[hd].search_query = db[h'[hd].author].location]_vars

\* after a could-not-find on "Paris" the same user's argument-less command is
\* running on "Paris"
C19_Witness ==
    \E hd \in DOMAIN h, later \in DOMAIN h :
        /\ Done(hd) /\ h[hd].location = "Paris" /\ h[hd].msg = "could_not_find"
        /\ h[later].author = h[hd].author /\ h[later].location = None
        /\ h[later].pc = "geo" /\ h[later].search_query = "Paris"
        /\ db[h[hd].author].location = "Paris"

\* C20: from the empty table, every row's units is "metric" or "imperial"
\* after any commands; a units command either leaves the table as it is (an
\* unrecognised argument) or sets one user's units to one of the two; a first
\* location save by a user with no row stores "imperial".
C20_UnitsColumnDomain ==
    [][/\ \A u \in DOMAIN db' : db'[u].units \in {"metric", "imperial"}
       /\ h' = h =>
             \/ db' = db
             \/ \E a \in Users, new_unit \in {"metric", "imperial"} :
                    db' = UpsertUnits(db, a, new_unit)
       /\ \A u \in Users :
             (u \notin DOMAIN db /\ u \in DOMAIN db' /\ db'[u].location # None)
                 => db'[u].units = "imperial"]_vars

C20_Witness ==
    \E u \in DOMAIN db, v \in DOMAIN db :
        /\ db[u].location = "Paris" /\ db[u].units = "imperial"
        /\ db[v].location = None /\ db[v].units = "metric"

====
